---- MODULE Spec2Model ----
(***************************************************************************)
(* Model of checkin.py: the multi-account check-in run.                    *)
(*                                                                         *)
(* One run of run_main()/main() is modelled as a sequential state machine. *)
(* The position in the code is pc; every awaited or external call (browser *)
(* launch, page creation, navigation, cookie read, HTTP client creation,   *)
(* GET, POST, file read, file write, notification) is an action whose      *)
(* outcome is drawn from a small set, including "the call raised".         *)
(*                                                                         *)
(* Representation notes                                                    *)
(*  - a Python dict is a TLA+ function whose DOMAIN is the key set;        *)
(*  - quota figures are kept in hundredths (round(x, 2) yields a value     *)
(*    with two decimals, so 1.0 is 100);                                   *)
(*  - a text (file content, hash) is a record [tag, ser, nl]: tag "none"   *)
(*    is Python None / no file, tag "hex" is a 16-hex digest standing for  *)
(*    the serialisation ser it was computed from (the digest is taken to   *)
(*    be collision free), tag "text" is any other text; nl says that the   *)
(*    text carries surrounding whitespace (which str.strip() removes);     *)
(*  - the loop index i is 0-based as in the source, sequences are 1-based. *)
(***************************************************************************)
EXTENDS Integers, Sequences, FiniteSets, TLC

\* ------------------------------------------------------------------ bounds
MaxAccounts == 2

\* --------------------------------------------------------- program constants
QuotaScale == 500000
HttpOk == 200

\* ------------------------------------------------------------ input domains
\* raw quota figures returned by the user-info endpoint (minor units);
\* 500000 and 502000 are different raw figures with the same 2-decimal value
RawQuotas == {500000, 502000, 1000000}
RawUsed == {0, 500000}
Statuses == {200, 500}
WafNames == {"acw_tc", "cdn_sec_tc"}
OtherNames == {"_ga"}

\* ------------------------------------------------------------------ helpers
EmptyDict == [n \in {} |-> "x"]

\* round(raw / 500000, 2), in hundredths. Exact ties (raw = 2500 mod 5000)
\* depend on the binary representation of the quotient in the source and do
\* not occur in RawQuotas / RawUsed.
Round2(raw) == (raw * 100 + (QuotaScale \div 2)) \div QuotaScale

\* ------------------------------------------------------------ configuration
\* ProviderConfig as seen through needs_waf_cookies(), needs_manual_check_in()
\* and waf_cookie_names; get_provider returns None for an unknown key.
Provider(w, m, names) == [none |-> FALSE, waf |-> w, manual |-> m, waf_cookie_names |-> names]
NoProvider == [none |-> TRUE, waf |-> FALSE, manual |-> FALSE, waf_cookie_names |-> {}]

Providers ==
  [ anyrouter   |-> Provider(TRUE, TRUE, WafNames),
    agentrouter |-> Provider(FALSE, FALSE, {}),
    wafauto     |-> Provider(TRUE, FALSE, {"acw_tc"}),
    wafnonames  |-> Provider(TRUE, TRUE, {}) ]

ProviderKeys == DOMAIN Providers

get_provider(key) == IF key \in ProviderKeys THEN Providers[key] ELSE NoProvider

\* The credential blob: a mapping (form "dict"), a ';'-delimited string given
\* as the sequence of its segments (form "str"; a segment is [eq, k, v] where
\* eq says whether it contains '='), or any other shape (form "other").
Seg(k, v) == [eq |-> TRUE, k |-> k, v |-> v]
NoEqSeg == [eq |-> FALSE, k |-> "", v |-> ""]
NoSegs == SubSeq(<<NoEqSeg>>, 1, 0)
DictBlob(d) == [form |-> "dict", dict |-> d, segs |-> NoSegs]
StrBlob(s) == [form |-> "str", dict |-> EmptyDict, segs |-> s]
OtherBlob == [form |-> "other", dict |-> EmptyDict, segs |-> NoSegs]

RECURSIVE ParseSegs(_, _)
ParseSegs(segs, acc) ==
  IF segs = <<>> THEN acc
  ELSE LET s == Head(segs)
           acc2 == IF s.eq
                   THEN [n \in DOMAIN acc \cup {s.k} |-> IF n = s.k THEN s.v ELSE acc[n]]
                   ELSE acc
       IN ParseSegs(Tail(segs), acc2)

\* variant: a string is kept whole as one cookie, whatever its segments
parse_cookies_Whole(cookies_data) ==
  IF cookies_data.form = "dict" THEN cookies_data.dict
  ELSE IF cookies_data.form = "str" THEN [n \in {"raw"} |-> "x"]
  ELSE EmptyDict


parse_cookies(cookies_data) ==
  IF cookies_data.form = "dict" THEN cookies_data.dict
  ELSE IF cookies_data.form = "str" THEN ParseSegs(cookies_data.segs, EmptyDict)
  ELSE EmptyDict

Account(p, c) == [provider |-> p, cookies |-> c]

SessionOnly == [n \in {"session"} |-> "u1"]
SessionAndWaf == [n \in {"session", "acw_tc"} |-> "u2"]

\* the account records a configuration is drawn from
AccountPool ==
  { Account("anyrouter", StrBlob(<<NoEqSeg, Seg("session", "u1")>>)),
    Account("wafauto", DictBlob(SessionAndWaf)),
    Account("agentrouter", DictBlob(SessionOnly)),
    Account("wafnonames", DictBlob(SessionOnly)),
    Account("nosuch", DictBlob(SessionOnly)),
    Account("anyrouter", StrBlob(<<NoEqSeg>>)) }

\* --------------------------------------------------------------- user info
NoneInfo == [none |-> TRUE, success |-> FALSE, quota |-> 0, used_quota |-> 0, error |-> ""]
OkInfo(q, u) == [none |-> FALSE, success |-> TRUE, quota |-> q, used_quota |-> u, error |-> ""]
ErrInfo(e) == [none |-> FALSE, success |-> FALSE, quota |-> 0, used_quota |-> 0, error |-> e]

\* what client.get(...) can do: raise (timeout, connection failure), or
\* deliver a response [status, json, success, quota, used_quota]
GetRaises == [raises |-> TRUE, status |-> 0, json |-> FALSE, success |-> FALSE, quota |-> 0, used_quota |-> 0]
GetResponse(st, js, ok, q, u) ==
  [raises |-> FALSE, status |-> st, json |-> js, success |-> ok, quota |-> q, used_quota |-> u]

GetOutcomes ==
  {GetRaises}
    \cup {GetResponse(st, js, FALSE, 0, 0) : st \in Statuses, js \in BOOLEAN}
    \cup {GetResponse(HttpOk, TRUE, TRUE, q, u) : q \in RawQuotas, u \in RawUsed}

get_user_info(out) ==
  IF out.raises THEN ErrInfo("Failed to get user info: exc")
  ELSE IF out.status = HttpOk
       THEN IF ~out.json THEN ErrInfo("Failed to get user info: exc")
            ELSE IF out.success THEN OkInfo(Round2(out.quota), Round2(out.used_quota))
            ELSE ErrInfo("Failed to get user info: HTTP 200")
       ELSE ErrInfo("Failed to get user info: HTTP 500")

\* ---------------------------------------------------------------- check-in
\* what client.post(...) can do: raise, or deliver a response. A JSON object
\* body carries ret, code and success, each a JSON literal or "absent"; kind
\* "jsonlist" is a JSON body that is not an object (result.get fails on it);
\* kind "text" is a body json.JSONDecodeError is raised for.
JsonRet == {"absent", "0", "1"}
JsonCode == {"absent", "0", "1"}
JsonSuccess == {"absent", "false", "true"}

PostRaises ==
  [raises |-> TRUE, status |-> 0, kind |-> "text", ret |-> "absent", code |-> "absent",
   success |-> "absent", has_success |-> FALSE]
PostJson(st, r, c, s) ==
  [raises |-> FALSE, status |-> st, kind |-> "json", ret |-> r, code |-> c,
   success |-> s, has_success |-> FALSE]
PostText(st, h) ==
  [raises |-> FALSE, status |-> st, kind |-> "text", ret |-> "absent", code |-> "absent",
   success |-> "absent", has_success |-> h]
PostJsonList(st) ==
  [raises |-> FALSE, status |-> st, kind |-> "jsonlist", ret |-> "absent", code |-> "absent",
   success |-> "absent", has_success |-> FALSE]

PostOutcomes ==
  {PostRaises}
    \cup {PostJson(st, r, c, s) : st \in Statuses, r \in JsonRet, c \in JsonCode, s \in JsonSuccess}
    \cup {PostText(st, h) : st \in Statuses, h \in BOOLEAN}
    \cup {PostJsonList(st) : st \in Statuses}

\* execute_check_in raises when the POST raises, or when the decoded body is
\* not an object (only json.JSONDecodeError is handled there)
CheckInRaises(resp) ==
  resp.raises \/ (resp.status = HttpOk /\ resp.kind = "jsonlist")

\* variant: the status code is not looked at
execute_check_in_AnyStatus(resp) ==
  IF resp.kind = "json"
  THEN resp.ret = "1" \/ resp.code = "0" \/ resp.success = "true"
  ELSE resp.has_success

\* the value execute_check_in returns when it does not raise
execute_check_in(resp) ==
  IF resp.status = HttpOk
  THEN IF resp.kind = "json"
       THEN resp.ret = "1" \/ resp.code = "0" \/ resp.success = "true"
       ELSE resp.has_success
  ELSE FALSE

\* ------------------------------------------------------------- balance hash
NoText == [tag |-> "none", ser |-> <<>>, nl |-> FALSE]
Strip(t) == [t EXCEPT !.nl = FALSE]
IsNone(t) == t.tag = "none"

\* keys of a dict in the order json.dumps(sort_keys=True) writes them. The
\* key "account_<n>" is represented by n; for n < 10 the order of the key
\* strings is the order of the numbers.
RECURSIVE SortedKeys(_)
SortedKeys(S) ==
  IF S = {} THEN <<>>
  ELSE LET m == CHOOSE x \in S : \A y \in S : x <= y
       IN <<m>> \o SortedKeys(S \ {m})

\* sha256(...).hexdigest()[:16] of a serialisation
Digest(json) == [tag |-> "hex", ser |-> json, nl |-> FALSE]

\* variant: the used value enters the fingerprint as well
generate_balance_hash_WithUsed(balances) ==
  LET keys == SortedKeys(DOMAIN balances)
  IN Digest([j \in 1..Len(keys) |-> <<keys[j], balances[keys[j]].quota, balances[keys[j]].used>>])

generate_balance_hash(balances) ==
  LET simple_balances == [k \in DOMAIN balances |-> balances[k].quota]
      keys == SortedKeys(DOMAIN simple_balances)
      balance_json == [j \in 1..Len(keys) |-> <<keys[j], simple_balances[keys[j]]>>]
  IN Digest(balance_json)

\* load_balance_hash: None when the file does not exist or reading raises,
\* else the stripped content
load_balance_hash(file, read_ok) ==
  IF IsNone(file) THEN NoText
  ELSE IF read_ok THEN Strip(file) ELSE NoText

\* save_balance_hash: the content of the file afterwards. open(..., 'w') may
\* raise (file untouched), or the write may raise after the file was
\* truncated; both are swallowed with a warning.
SaveOutcomes == {"written", "open_raises", "write_raises"}
EmptyFile == [tag |-> "text", ser |-> <<>>, nl |-> FALSE]

save_balance_hash(file, balance_hash, outcome) ==
  IF outcome = "written" THEN balance_hash
  ELSE IF outcome = "write_raises" THEN EmptyFile
  ELSE file

EmptyBalances == [k \in {} |-> [quota |-> 0, used |-> 0]]

\* ------------------------------------------------------------- WAF cookies
\* the cookies page.context.cookies() delivers: name -> value, where the
\* value NullValue stands for a cookie whose value is None
NullValue == "null"
BrowserValues == {"w", NullValue}
CookieJars ==
  UNION {[S -> BrowserValues] : S \in SUBSET (WafNames \cup OtherNames)}

\* lines 104-109: the required cookies with a value
WafCookies(jar, required_cookies) ==
  [n \in {m \in DOMAIN jar \cap required_cookies : jar[m] # NullValue} |-> jar[n]]

\* variant: acquisition is content with any one of the required cookies
MissingCookies_Any(required_cookies, waf_cookies) ==
  IF DOMAIN waf_cookies # {} THEN {} ELSE required_cookies

\* line 113
MissingCookies(required_cookies, waf_cookies) ==
  {c \in required_cookies : c \notin DOMAIN waf_cookies}

\* variant: {**user_cookies, **waf_cookies}
MergeCookies_WafWins(waf_cookies, user_cookies) ==
  [n \in DOMAIN waf_cookies \cup DOMAIN user_cookies |->
     IF n \in DOMAIN waf_cookies THEN waf_cookies[n] ELSE user_cookies[n]]

\* line 167: {**waf_cookies, **user_cookies}
MergeCookies(waf_cookies, user_cookies) ==
  [n \in DOMAIN waf_cookies \cup DOMAIN user_cookies |->
     IF n \in DOMAIN user_cookies THEN user_cookies[n] ELSE waf_cookies[n]]

\* what get_waf_cookies_with_playwright handed back to prepare_cookies
WafNotCalled == [called |-> FALSE, none |-> TRUE, cookies |-> EmptyDict]
WafNone == [called |-> TRUE, none |-> TRUE, cookies |-> EmptyDict]
WafSet(c) == [called |-> TRUE, none |-> FALSE, cookies |-> c]

\* ------------------------------------------------------- result of an account
\* how check_in_account ended: it returned (success, user_info) or it raised
NoRet == [kind |-> "none", success |-> FALSE, user_info |-> NoneInfo]
Return(ok, info) == [kind |-> "return", success |-> ok, user_info |-> info]
Raise == [kind |-> "raise", success |-> FALSE, user_info |-> NoneInfo]

\* lines 252-254 and 259-261: what check_in_account returns after the POST;
\* an exception of execute_check_in becomes (False, None)
CheckInResult(resp, info) ==
  IF CheckInRaises(resp)
  THEN Return(FALSE, NoneInfo)
  ELSE Return(execute_check_in(resp), info)

\* lines 337-370: the record appended for account i
ResultData(i, r) ==
  LET name == i + 1
      info == r.user_info
  IN IF r.kind = "raise"
     THEN [name |-> name, success |-> FALSE, msg |-> "exception", quota |-> 0, used |-> 0]
     ELSE IF r.success
          THEN IF ~info.none /\ info.success
               THEN [name |-> name, success |-> TRUE, msg |-> "",
                     quota |-> info.quota, used |-> info.used_quota]
               ELSE [name |-> name, success |-> TRUE,
                     msg |-> "Check-in OK but failed to get info", quota |-> 0, used |-> 0]
          ELSE IF ~info.none
               THEN [name |-> name, success |-> FALSE,
                     msg |-> IF info.success THEN "Unknown error" ELSE info.error,
                     quota |-> 0, used |-> 0]
               ELSE [name |-> name, success |-> FALSE, msg |-> "Request failed",
                     quota |-> 0, used |-> 0]

\* variant: every successful check-in contributes a key
RecordBalance_AnySuccess(balances, i, r) ==
  IF r.kind = "return" /\ r.success
  THEN [k \in DOMAIN balances \cup {i + 1} |->
          IF k = i + 1
          THEN [quota |-> r.user_info.quota, used |-> r.user_info.used_quota]
          ELSE balances[k]]
  ELSE balances

\* lines 349-357: current_balances after account i
RecordBalance(balances, i, r) ==
  IF r.kind = "return" /\ r.success /\ ~r.user_info.none /\ r.user_info.success
  THEN [k \in DOMAIN balances \cup {i + 1} |->
          IF k = i + 1
          THEN [quota |-> r.user_info.quota, used |-> r.user_info.used_quota]
          ELSE balances[k]]
  ELSE balances

\* lines 349-350
CountSuccess(count, r) ==
  IF r.kind = "return" /\ r.success THEN count + 1 ELSE count

\* variant: an attempt that raised leaves no record
AppendResult_SkipRaised(rs, rec) ==
  IF rec.msg = "exception" THEN rs ELSE Append(rs, rec)

\* line 372
AppendResult(rs, rec) == Append(rs, rec)

\* ----------------------------------------------------------- decision logic
\* line 377
CurrentBalanceHash(balances) ==
  IF DOMAIN balances # {} THEN generate_balance_hash(balances) ELSE NoText

\* variant: a missing previous hash is not a change
BalanceChanged_NoFirstRun(current_hash, last_hash) ==
  ~IsNone(current_hash) /\ ~IsNone(last_hash) /\ current_hash # last_hash

\* lines 378-386
BalanceChanged(current_hash, last_hash) ==
  IF ~IsNone(current_hash)
  THEN IF IsNone(last_hash) THEN TRUE ELSE current_hash # last_hash
  ELSE FALSE

\* variant: the hash is saved only when it changed
ShouldSave_OnlyChanged(current_hash, changed) == ~IsNone(current_hash) /\ changed

\* lines 380 and 388: the hash is saved whenever there is one
ShouldSave(current_hash, changed) == ~IsNone(current_hash)

\* variant: notify only when there are failures and the balance changed
ShouldNotify_Both(count, total, changed) == (count < total) /\ changed

\* lines 391-392
ShouldNotify(count, total, changed) == (count < total) \/ changed

\* line 410
ExitCode(count) == IF count > 0 THEN 0 ELSE 1

\* -------------------------------------------------------------------- state
VARIABLES
  accounts,            \* load_accounts_config(): the configured accounts
  hashFile0,           \* history: content of balance_hash.txt when the run began
  hashFile,            \* content of balance_hash.txt
  pc,                  \* position in run_main / main / check_in_account
  i,                   \* loop index of main (0-based)
  last_balance_hash,   \* main: value loaded at the start
  results,             \* main: result records
  current_balances,    \* main: balance snapshot
  success_count,       \* main
  balance_changed,     \* main
  user_cookies,        \* check_in_account: parsed credential
  waf_ret,             \* what get_waf_cookies_with_playwright returned
  all_cookies,         \* check_in_account: merged cookies
  user_info,           \* check_in_account
  ret,                 \* how check_in_account ended
  contextOpen,         \* browser contexts launched and not closed
  clientOpen,          \* httpx clients created and not closed
  requests,            \* HTTP requests issued for the current account
  getRaised,           \* history: client.get raised for the current account
  jarState,            \* history: "unread", or whether the browser's cookies were
                       \* "complete" or "partial" with respect to the required names
  hashReads,           \* calls of load_balance_hash
  hashWrites,          \* calls of save_balance_hash
  saveOutcome,         \* how the call of save_balance_hash went
  notifyCalls,         \* calls of notify.push_message
  notifyRaised,        \* push_message raised
  exitCode,            \* process exit code (-1 while running)
  run,                 \* which invocation of the script this is (1 or 2)
  prev,                \* history: key -> quota of the invocation before
  probe                \* a direct call of one function: its arguments and result

vars ==
  <<accounts, hashFile0, hashFile, pc, i, last_balance_hash, results, current_balances,
    success_count, balance_changed, user_cookies, waf_ret, all_cookies,
    user_info, ret, contextOpen, clientOpen, requests, getRaised, jarState,
    hashReads, hashWrites, saveOutcome, notifyCalls, notifyRaised, exitCode,
    run, prev, probe>>

mainVars == <<last_balance_hash, results, current_balances, success_count, balance_changed>>
fileVars == <<hashFile, hashReads, hashWrites, saveOutcome>>
endVars == <<notifyCalls, notifyRaised, exitCode>>
sceneVars == <<run, prev, probe>>

\* account configurations of up to MaxAccounts accounts
Configs == UNION {[1..n -> AccountPool] : n \in 0..MaxAccounts}

\* what balance_hash.txt may hold before a run over n accounts: nothing,
\* or the fingerprint a previous run saved for these accounts, followed by a
\* newline
PrevBalances(n) ==
  {[k \in 1..n |-> [quota |-> 100, used |-> 0]]}
PrevFiles(n) ==
  {NoText} \cup {[generate_balance_hash(b) EXCEPT !.nl = TRUE] : b \in PrevBalances(n)}

NoResults == SubSeq(<<ResultData(0, NoRet)>>, 1, 0)
NoRequests == SubSeq(<<"GET">>, 1, 0)

\* the state of a process that has just been started
Fresh ==
  /\ pc = "main"
  /\ i = 0
  /\ last_balance_hash = NoText
  /\ results = NoResults
  /\ current_balances = EmptyBalances
  /\ success_count = 0
  /\ balance_changed = FALSE
  /\ user_cookies = EmptyDict
  /\ waf_ret = WafNotCalled
  /\ all_cookies = EmptyDict
  /\ user_info = NoneInfo
  /\ ret = NoRet
  /\ contextOpen = 0
  /\ clientOpen = 0
  /\ requests = NoRequests
  /\ getRaised = FALSE
  /\ jarState = "unread"
  /\ hashReads = 0
  /\ hashWrites = 0
  /\ saveOutcome = "none"
  /\ notifyCalls = 0
  /\ notifyRaised = FALSE
  /\ exitCode = -1

NoProbe == [kind |-> "none", input |-> <<>>, output |-> <<>>]

Init ==
  /\ accounts \in Configs
  /\ hashFile \in PrevFiles(Len(accounts))
  /\ hashFile0 = hashFile
  /\ Fresh
  /\ run = 1
  /\ prev = EmptyBalances
  /\ probe = NoProbe

account == accounts[i + 1]
provider_config == get_provider(account.provider)

\* check_in_account ends: its frame is left with outcome r
Leave(r) ==
  /\ ret' = r
  /\ pc' = "record"

\* variant: the hash is loaded before the accounts are looked at
MainStart_LoadFirst ==
  /\ pc = "main"
  /\ \E read_ok \in BOOLEAN :
       last_balance_hash' = load_balance_hash(hashFile, read_ok)
  /\ hashReads' = hashReads + 1
  /\ IF Len(accounts) = 0
     THEN /\ exitCode' = 1
          /\ pc' = "done"
     ELSE /\ pc' = "check_in_account"
          /\ UNCHANGED exitCode
  /\ UNCHANGED <<accounts, hashFile0, hashFile, i, results, current_balances, success_count,
                 balance_changed, user_cookies, waf_ret, all_cookies, user_info, ret,
                 contextOpen, clientOpen, requests, hashWrites, saveOutcome,
                 notifyCalls, notifyRaised>>
  /\ UNCHANGED <<getRaised, jarState>>
  /\ UNCHANGED sceneVars

\* positions inside the loop body of main, lines 332-372
InAccount ==
  pc \in {"check_in_account", "launch", "new_page", "goto", "cookies", "client",
          "get_user_info", "execute_check_in", "record"}

\* ------------------------------------------------------------------ actions
\* main, lines 317-329: no accounts -> sys.exit(1); else load the hash
MainStart ==
  /\ pc = "main"
  /\ IF Len(accounts) = 0
     THEN /\ exitCode' = 1
          /\ pc' = "done"
          /\ UNCHANGED <<last_balance_hash, hashReads>>
     ELSE /\ \E read_ok \in BOOLEAN :
               last_balance_hash' = load_balance_hash(hashFile, read_ok)
          /\ hashReads' = hashReads + 1
          /\ pc' = "check_in_account"
          /\ UNCHANGED exitCode
  /\ UNCHANGED <<accounts, hashFile0, hashFile, i, results, current_balances, success_count,
                 balance_changed, user_cookies, waf_ret, all_cookies, user_info, ret,
                 contextOpen, clientOpen, requests, hashWrites, saveOutcome,
                 notifyCalls, notifyRaised>>
  /\ UNCHANGED <<getRaised, jarState>>
  /\ UNCHANGED sceneVars

\* check_in_account, lines 207-220, and prepare_cookies, lines 156-167 when
\* the provider needs no WAF cookies
CheckInAccount ==
  /\ pc = "check_in_account"
  /\ UNCHANGED <<requests, waf_ret, user_info>>
  /\ LET cookies == parse_cookies(account.cookies)
     IN IF provider_config.none
        THEN /\ Leave(Return(FALSE, NoneInfo))
             /\ UNCHANGED <<user_cookies, all_cookies>>
        ELSE IF DOMAIN cookies = {}
        THEN /\ Leave(Return(FALSE, NoneInfo))
             /\ user_cookies' = cookies
             /\ UNCHANGED all_cookies
        ELSE IF provider_config.waf
        THEN /\ pc' = "launch"
             /\ user_cookies' = cookies
             /\ UNCHANGED <<ret, all_cookies>>
        ELSE /\ user_cookies' = cookies
             /\ all_cookies' = MergeCookies(EmptyDict, cookies)
             /\ pc' = "client"
             /\ UNCHANGED ret
  /\ UNCHANGED <<accounts, hashFile0, i, contextOpen, clientOpen>>
  /\ UNCHANGED <<mainVars, fileVars, endVars>>
  /\ UNCHANGED <<getRaised, jarState>>
  /\ UNCHANGED sceneVars

\* context.close(), lines 117, 122, 128
CloseContext(n) == n - 1

\* variant: the client is not released
CloseClient_Leak(n) == n

\* client.close(), line 263
CloseClient(n) == n - 1

\* get_waf_cookies_with_playwright, lines 72-88: start the browser. When the
\* launch raises, nothing handles it up to main.
LaunchContext ==
  /\ pc = "launch"
  /\ \E raises \in BOOLEAN :
       IF raises
       THEN /\ Leave(Raise)
            /\ UNCHANGED contextOpen
       ELSE /\ contextOpen' = contextOpen + 1
            /\ pc' = "new_page"
            /\ UNCHANGED ret
  /\ UNCHANGED <<accounts, hashFile0, i, user_cookies, waf_ret, all_cookies, user_info,
                 clientOpen, requests>>
  /\ UNCHANGED <<mainVars, fileVars, endVars>>
  /\ UNCHANGED <<getRaised, jarState>>
  /\ UNCHANGED sceneVars

\* line 90: context.new_page(), outside the try block
NewPage ==
  /\ pc = "new_page"
  /\ \E raises \in BOOLEAN :
       IF raises
       THEN Leave(Raise)
       ELSE /\ pc' = "goto"
            /\ UNCHANGED ret
  /\ UNCHANGED <<accounts, hashFile0, i, user_cookies, waf_ret, all_cookies, user_info,
                 contextOpen, clientOpen, requests>>
  /\ UNCHANGED <<mainVars, fileVars, endVars>>
  /\ UNCHANGED <<getRaised, jarState>>
  /\ UNCHANGED sceneVars

\* lines 95-100 and 126-129: navigate and wait; the readiness wait falls
\* back to a fixed delay; an exception closes the context and yields None,
\* on which prepare_cookies (161-163) and check_in_account (223-224) give up
NavigationOutcomes == {"ready", "fallback", "raises"}

Navigate ==
  /\ pc = "goto"
  /\ \E outcome \in NavigationOutcomes :
       IF outcome = "raises"
       THEN /\ contextOpen' = CloseContext(contextOpen)
            /\ waf_ret' = WafNone
            /\ Leave(Return(FALSE, NoneInfo))
       ELSE /\ pc' = "cookies"
            /\ UNCHANGED <<contextOpen, waf_ret, ret>>
  /\ UNCHANGED <<accounts, hashFile0, i, user_cookies, all_cookies, user_info, clientOpen, requests>>
  /\ UNCHANGED <<mainVars, fileVars, endVars>>
  /\ UNCHANGED <<getRaised, jarState>>
  /\ UNCHANGED sceneVars

\* lines 102-129, then prepare_cookies 161-167 and check_in_account 223-224
ReadCookies ==
  /\ pc = "cookies"
  /\ contextOpen' = CloseContext(contextOpen)
  /\ \E raises \in BOOLEAN, jar \in CookieJars :
       LET required_cookies == provider_config.waf_cookie_names
           waf_cookies == WafCookies(jar, required_cookies)
           missing_cookies == MissingCookies(required_cookies, waf_cookies)
           partial == \E c \in required_cookies : c \notin DOMAIN jar \/ jar[c] = NullValue
       IN /\ jarState' = IF raises THEN "unread" ELSE IF partial THEN "partial" ELSE "complete"
          /\ IF raises \/ missing_cookies # {}
             THEN /\ waf_ret' = WafNone
                  /\ Leave(Return(FALSE, NoneInfo))
                  /\ UNCHANGED all_cookies
             ELSE /\ waf_ret' = WafSet(waf_cookies)
                  /\ IF DOMAIN waf_cookies = {}
                     THEN /\ Leave(Return(FALSE, NoneInfo))
                          /\ UNCHANGED all_cookies
                     ELSE /\ all_cookies' = MergeCookies(waf_cookies, user_cookies)
                          /\ pc' = "client"
                          /\ UNCHANGED ret
  /\ UNCHANGED <<accounts, hashFile0, i, user_cookies, user_info, clientOpen, requests>>
  /\ UNCHANGED <<mainVars, fileVars, endVars>>
  /\ UNCHANGED getRaised
  /\ UNCHANGED sceneVars

\* line 226: httpx.Client(...), outside the try block
OpenClient ==
  /\ pc = "client"
  /\ \E raises \in BOOLEAN :
       IF raises
       THEN /\ Leave(Raise)
            /\ UNCHANGED clientOpen
       ELSE /\ clientOpen' = clientOpen + 1
            /\ pc' = "get_user_info"
            /\ UNCHANGED ret
  /\ UNCHANGED <<accounts, hashFile0, i, user_cookies, waf_ret, all_cookies, user_info,
                 contextOpen, requests>>
  /\ UNCHANGED <<mainVars, fileVars, endVars>>
  /\ UNCHANGED <<getRaised, jarState>>
  /\ UNCHANGED sceneVars

\* lines 229-257 and 262-263: the GET; without manual check-in the account
\* is done and the client is closed
GetUserInfo ==
  /\ pc = "get_user_info"
  /\ requests' = Append(requests, "GET")
  /\ \E out \in GetOutcomes :
       LET info == get_user_info(out)
       IN /\ user_info' = info
          /\ getRaised' = out.raises
          /\ IF provider_config.manual
             THEN /\ pc' = "execute_check_in"
                  /\ UNCHANGED <<ret, clientOpen>>
             ELSE /\ Leave(Return(TRUE, info))
                  /\ clientOpen' = CloseClient(clientOpen)
  /\ UNCHANGED <<accounts, hashFile0, i, user_cookies, waf_ret, all_cookies, contextOpen>>
  /\ UNCHANGED <<mainVars, fileVars, endVars>>
  /\ UNCHANGED jarState
  /\ UNCHANGED sceneVars

\* lines 252-254, 170-202 and 259-263: the POST, its classification, the
\* handler of check_in_account and the release of the client
ExecuteCheckIn ==
  /\ pc = "execute_check_in"
  /\ requests' = Append(requests, "POST")
  /\ clientOpen' = CloseClient(clientOpen)
  /\ \E resp \in PostOutcomes : Leave(CheckInResult(resp, user_info))
  /\ UNCHANGED <<accounts, hashFile0, i, user_cookies, waf_ret, all_cookies, user_info, contextOpen>>
  /\ UNCHANGED <<mainVars, fileVars, endVars>>
  /\ UNCHANGED <<getRaised, jarState>>
  /\ UNCHANGED sceneVars

\* main, lines 346-372: record the outcome and go to the next account; the
\* locals of the finished check_in_account call are gone
RecordResult ==
  /\ pc = "record"
  /\ results' = AppendResult(results, ResultData(i, ret))
  /\ current_balances' = RecordBalance(current_balances, i, ret)
  /\ success_count' = CountSuccess(success_count, ret)
  /\ i' = i + 1
  /\ pc' = IF i + 1 < Len(accounts) THEN "check_in_account" ELSE "decide"
  /\ user_cookies' = EmptyDict
  /\ waf_ret' = WafNotCalled
  /\ all_cookies' = EmptyDict
  /\ user_info' = NoneInfo
  /\ ret' = NoRet
  /\ requests' = NoRequests
  /\ UNCHANGED <<accounts, hashFile0, last_balance_hash, balance_changed, contextOpen, clientOpen>>
  /\ UNCHANGED <<fileVars, endVars>>
  /\ getRaised' = FALSE
  /\ jarState' = "unread"
  /\ UNCHANGED sceneVars

\* main, lines 376-388: fingerprint, comparison, save
Decide ==
  /\ pc = "decide"
  /\ LET current_balance_hash == CurrentBalanceHash(current_balances)
     IN /\ balance_changed' = BalanceChanged(current_balance_hash, last_balance_hash)
        /\ IF ShouldSave(current_balance_hash,
                         BalanceChanged(current_balance_hash, last_balance_hash))
           THEN \E outcome \in SaveOutcomes :
                  /\ hashFile' = save_balance_hash(hashFile, current_balance_hash, outcome)
                  /\ saveOutcome' = outcome
                  /\ hashWrites' = hashWrites + 1
           ELSE UNCHANGED <<hashFile, saveOutcome, hashWrites>>
  /\ pc' = "notify"
  /\ UNCHANGED <<accounts, hashFile0, i, last_balance_hash, results, current_balances, success_count,
                 user_cookies, waf_ret, all_cookies, user_info, ret, contextOpen,
                 clientOpen, requests, hashReads>>
  /\ UNCHANGED endVars
  /\ UNCHANGED <<getRaised, jarState>>
  /\ UNCHANGED sceneVars

\* main, lines 390-408, and run_main, lines 420-422: push_message raising
\* ends main; run_main turns it into sys.exit(1)
Notify ==
  /\ pc = "notify"
  /\ IF ShouldNotify(success_count, Len(accounts), balance_changed)
     THEN /\ notifyCalls' = notifyCalls + 1
          /\ \E raises \in BOOLEAN :
               /\ notifyRaised' = raises
               /\ IF raises
                  THEN /\ exitCode' = 1
                       /\ pc' = "done"
                  ELSE /\ pc' = "exit"
                       /\ UNCHANGED exitCode
     ELSE /\ pc' = "exit"
          /\ UNCHANGED endVars
  /\ UNCHANGED <<accounts, hashFile0, i, user_cookies, waf_ret, all_cookies, user_info, ret,
                 contextOpen, clientOpen, requests>>
  /\ UNCHANGED <<mainVars, fileVars>>
  /\ UNCHANGED <<getRaised, jarState>>
  /\ UNCHANGED sceneVars

\* main, line 410
Exit ==
  /\ pc = "exit"
  /\ exitCode' = ExitCode(success_count)
  /\ pc' = "done"
  /\ UNCHANGED <<accounts, hashFile0, i, user_cookies, waf_ret, all_cookies, user_info, ret,
                 contextOpen, clientOpen, requests, notifyCalls, notifyRaised>>
  /\ UNCHANGED <<mainVars, fileVars>>
  /\ UNCHANGED <<getRaised, jarState>>
  /\ UNCHANGED sceneVars

Next ==
  \/ MainStart
  \/ CheckInAccount
  \/ LaunchContext
  \/ NewPage
  \/ Navigate
  \/ ReadCookies
  \/ OpenClient
  \/ GetUserInfo
  \/ ExecuteCheckIn
  \/ RecordResult
  \/ Decide
  \/ Notify
  \/ Exit

Spec == Init /\ [][Next]_vars

\* ------------------------------------------------------------ interruption
\* accounts whose configuration lets the check-in be attempted
WorkingPool ==
  { Account("anyrouter", StrBlob(<<NoEqSeg, Seg("session", "u1")>>)),
    Account("agentrouter", DictBlob(SessionOnly)) }
WorkingConfigs == UNION {[1..n -> WorkingPool] : n \in 1..MaxAccounts}

InitInterrupt ==
  /\ accounts \in WorkingConfigs
  /\ hashFile \in PrevFiles(Len(accounts))
  /\ hashFile0 = hashFile
  /\ Fresh
  /\ run = 1
  /\ prev = EmptyBalances
  /\ probe = NoProbe

\* positions inside "for i, account in enumerate(accounts)", lines 332-372
InLoop == InAccount

\* positions inside the try ... finally of check_in_account, lines 228-263
InClientTry == pc \in {"get_user_info", "execute_check_in"}

\* variant: the handler reports what was done so far before leaving
Interrupt_PartialReport ==
  /\ InLoop
  /\ clientOpen' = IF InClientTry THEN CloseClient(clientOpen) ELSE clientOpen
  /\ notifyCalls' = notifyCalls + 1
  /\ exitCode' = 1
  /\ pc' = "interrupted"
  /\ results' = NoResults
  /\ current_balances' = EmptyBalances
  /\ user_cookies' = EmptyDict
  /\ waf_ret' = WafNotCalled
  /\ all_cookies' = EmptyDict
  /\ user_info' = NoneInfo
  /\ ret' = NoRet
  /\ requests' = NoRequests
  /\ getRaised' = FALSE
  /\ jarState' = "unread"
  /\ UNCHANGED <<accounts, hashFile0, i, last_balance_hash, success_count, balance_changed,
                 contextOpen, notifyRaised>>
  /\ UNCHANGED <<fileVars, sceneVars>>

\* KeyboardInterrupt raised while the loop runs. It is not an Exception, so
\* no handler of check_in_account (259), main (367) or the WAF helper (126)
\* takes it; the finally of check_in_account (262-263) closes the client;
\* run_main (417-419) exits with 1. The frames of main and check_in_account
\* are gone with their locals; the counters are kept as history.
Interrupt ==
  /\ InLoop
  /\ clientOpen' = IF InClientTry THEN CloseClient(clientOpen) ELSE clientOpen
  /\ exitCode' = 1
  /\ pc' = "interrupted"
  /\ results' = NoResults
  /\ current_balances' = EmptyBalances
  /\ user_cookies' = EmptyDict
  /\ waf_ret' = WafNotCalled
  /\ all_cookies' = EmptyDict
  /\ user_info' = NoneInfo
  /\ ret' = NoRet
  /\ requests' = NoRequests
  /\ getRaised' = FALSE
  /\ jarState' = "unread"
  /\ UNCHANGED <<accounts, hashFile0, i, last_balance_hash, success_count, balance_changed,
                 contextOpen, notifyCalls, notifyRaised>>
  /\ UNCHANGED <<fileVars, sceneVars>>

NextInterrupt == Next \/ Interrupt

SpecInterrupt == InitInterrupt /\ [][NextInterrupt]_vars

\* ------------------------------------------------------------ a second run
\* The first of two runs starts without a hash file; its accounts use the
\* provider with WAF cookies and manual check-in.
ManualPool == {Account("anyrouter", StrBlob(<<NoEqSeg, Seg("session", "u1")>>))}
ManualConfigs == UNION {[1..n -> ManualPool] : n \in 1..MaxAccounts}

InitTwoRuns ==
  /\ accounts \in ManualConfigs
  /\ hashFile = NoText
  /\ hashFile0 = hashFile
  /\ Fresh
  /\ run = 1
  /\ prev = EmptyBalances
  /\ probe = NoProbe

\* a finished run in which every account succeeded with user info (lines
\* 349-357) and save_balance_hash wrote the file (lines 381-382, 38-40)
CleanRun ==
  /\ pc = "done"
  /\ Len(accounts) > 0
  /\ success_count = Len(accounts)
  /\ DOMAIN current_balances = 1..Len(accounts)
  /\ saveOutcome = "written"

\* The script is started again over the same accounts after a clean first
\* run: a new process (lines 311-318 anew), the hash file as the first run
\* left it, the quotas of the first run's snapshot remembered as history.
Restart ==
  /\ run = 1
  /\ CleanRun
  /\ run' = 2
  /\ prev' = [k \in DOMAIN current_balances |-> current_balances[k].quota]
  /\ hashFile0' = hashFile
  /\ pc' = "main"
  /\ i' = 0
  /\ last_balance_hash' = NoText
  /\ results' = NoResults
  /\ current_balances' = EmptyBalances
  /\ success_count' = 0
  /\ balance_changed' = FALSE
  /\ contextOpen' = 0
  /\ clientOpen' = 0
  /\ hashReads' = 0
  /\ hashWrites' = 0
  /\ saveOutcome' = "none"
  /\ notifyCalls' = 0
  /\ notifyRaised' = FALSE
  /\ exitCode' = -1
  /\ UNCHANGED <<accounts, hashFile, user_cookies, waf_ret, all_cookies, user_info, ret,
                 requests, getRaised, jarState, probe>>

NextTwoRuns == Next \/ Restart

SpecTwoRuns == InitTwoRuns /\ [][NextTwoRuns]_vars

\* --------------------------------------------------- functions called alone
\* A snapshot as Python holds it: a dict whose items keep their insertion
\* order, here the sequence of its items. Quotas are the floats main stores
\* (round(..., 2), lines 354-355), in hundredths.
ProbeQuotas == {100, 200}
ProbeUsed == {0, 100}
KeyOrders ==
  UNION {{o \in [1..n -> 1..MaxAccounts] : \A x, y \in 1..n : x # y => o[x] # o[y]} :
           n \in 0..MaxAccounts}
OrderedSnapshots ==
  UNION {{[j \in 1..Len(o) |-> [key |-> o[j], quota |-> q[j], used |-> u[j]]] :
             q \in [1..Len(o) -> ProbeQuotas], u \in [1..Len(o) -> ProbeUsed]} :
           o \in KeyOrders}

\* the dict without its order, as the actions of main hold current_balances
DictOf(items) ==
  [k \in {items[j].key : j \in 1..Len(items)} |->
     LET j == CHOOSE x \in 1..Len(items) : items[x].key = k
     IN [quota |-> items[j].quota, used |-> items[j].used]]

\* line 48: the comprehension keeps the order of balances.items()
SimpleBalances(items) == [j \in 1..Len(items) |-> <<items[j].key, items[j].quota>>]

\* variant: json.dumps without sort_keys writes the pairs as inserted
DumpsSorted_AsInserted(pairs) == pairs

\* line 49: json.dumps(..., sort_keys=True) writes the pairs by ascending key
RECURSIVE DumpsSorted(_)
DumpsSorted(pairs) ==
  IF Len(pairs) = 0 THEN pairs
  ELSE LET m == CHOOSE x \in 1..Len(pairs) : \A y \in 1..Len(pairs) : pairs[x][1] <= pairs[y][1]
       IN <<pairs[m]>> \o DumpsSorted(SubSeq(pairs, 1, m - 1) \o SubSeq(pairs, m + 1, Len(pairs)))

\* lines 45-50 on a dict with insertion order
generate_balance_hash_ordered(items) == Digest(DumpsSorted(SimpleBalances(items)))

\* the snapshots main can build: its loop inserts the keys in ascending order
\* (lines 332-357)
LoopSnapshots ==
  {a \in OrderedSnapshots : \A x, y \in 1..Len(a) : x < y => a[x].key < a[y].key}

\* a snapshot of main against a snapshot with any insertion order
HashProbes ==
  {[kind |-> "hash", input |-> <<a, b>>, output |-> <<>>] :
     a \in LoopSnapshots, b \in OrderedSnapshots}

\* what check_in_account holds in user_info when it posts the check-in
ProbeInfos == {OkInfo(100, 0), ErrInfo("Failed to get user info: HTTP 500")}
PostProbes ==
  {[kind |-> "post", input |-> <<resp, info>>, output |-> <<>>] :
     resp \in PostOutcomes, info \in ProbeInfos}

InitProbe ==
  /\ accounts = <<>>
  /\ hashFile = NoText
  /\ hashFile0 = hashFile
  /\ Fresh
  /\ run = 1
  /\ prev = EmptyBalances
  /\ probe \in HashProbes \cup PostProbes

\* generate_balance_hash, lines 45-50, called on two snapshots
HashProbe ==
  /\ probe.kind = "hash"
  /\ Len(probe.output) = 0
  /\ probe' = [probe EXCEPT !.output = <<generate_balance_hash_ordered(probe.input[1]),
                                         generate_balance_hash_ordered(probe.input[2])>>]
  /\ UNCHANGED <<accounts, hashFile0, pc, i, user_cookies, waf_ret, all_cookies, user_info, ret,
                 contextOpen, clientOpen, requests, getRaised, jarState, run, prev>>
  /\ UNCHANGED <<mainVars, fileVars, endVars>>

\* execute_check_in, lines 170-202, called as check_in_account calls it
\* for a provider with manual check-in (lines 252-254, 259-261)
PostProbe ==
  /\ probe.kind = "post"
  /\ Len(probe.output) = 0
  /\ probe' = [probe EXCEPT !.output = <<CheckInResult(probe.input[1], probe.input[2])>>]
  /\ UNCHANGED <<accounts, hashFile0, pc, i, user_cookies, waf_ret, all_cookies, user_info, ret,
                 contextOpen, clientOpen, requests, getRaised, jarState, run, prev>>
  /\ UNCHANGED <<mainVars, fileVars, endVars>>

NextProbe == HashProbe \/ PostProbe

SpecProbe == InitProbe /\ [][NextProbe]_vars

\* ------------------------------------------------------------------ claims
AfterLoop == pc \in {"notify", "exit", "done"} /\ Len(accounts) > 0

\* C1: in a completed run over a non-empty account list push_message is
\* called exactly once if successCount < totalCount or the balance changed,
\* and not at all otherwise.
C1_NotifyIffFailuresOrChange ==
  /\ notifyCalls <= 1
  /\ (pc \in {"exit", "done"} /\ Len(accounts) > 0) =>
       (notifyCalls = 1 <=> (success_count < Len(accounts) \/ balance_changed))

\* C1 witness: every account succeeded, the balance changed, one notification
C1_Witness ==
  /\ pc = "done"
  /\ Len(accounts) = MaxAccounts
  /\ success_count = Len(accounts)
  /\ balance_changed
  /\ notifyCalls = 1

\* C2: after the account loop balanceChanged = snapshot non-empty and
\* (previous hash is null or the current fingerprint differs from it).
C2_BalanceChangedRule ==
  AfterLoop =>
    (balance_changed <=>
       (/\ DOMAIN current_balances # {}
        /\ (last_balance_hash.tag = "none"
              \/ generate_balance_hash(current_balances) # last_balance_hash)))

\* C2 witness: a snapshot whose fingerprint equals the loaded one: no change
C2_Witness ==
  /\ pc = "notify"
  /\ DOMAIN current_balances # {}
  /\ last_balance_hash = generate_balance_hash(current_balances)
  /\ ~balance_changed

\* C3: for a run that finished the account loop the exit code is 0 if at
\* least one account succeeded and 1 otherwise, also when the notification
\* collaborator raised.
C3_ExitCodeBySuccessCount ==
  (pc = "done" /\ Len(accounts) > 0) =>
     exitCode = (IF success_count > 0 THEN 0 ELSE 1)

\* C4: check_in_account never ends by raising: every exception of the
\* per-account sequence becomes the result (false, null).
C4_NoExceptionEscapes == ret.kind # "raise"

\* C5: when get_waf_cookies_with_playwright has ended, no browser context it
\* launched is still open.
C5_ContextClosedOnReturn ==
  pc \notin {"new_page", "goto", "cookies"} => contextOpen = 0

\* C6: without manual check-in an account that reached the HTTP stage is
\* reported successful if and only if the GET did not raise.
C6_SuccessIffGetDidNotRaise ==
  (pc = "record" /\ Len(requests) > 0 /\ ~provider_config.manual) =>
     ((ret.kind = "return" /\ ret.success) <=> ~getRaised)

\* C7: the HTTP client is open only between its creation and the end of
\* check_in_account: at most one is open, none between accounts or at the end.
C7_ClientReleased ==
  clientOpen = (IF pc \in {"get_user_info", "execute_check_in"} THEN 1 ELSE 0)

\* C7 witness: the POST raised (the only way to end with (false, null) after
\* two requests) and the client is closed
C7_Witness ==
  /\ pc = "record"
  /\ requests = <<"GET", "POST">>
  /\ ret = Return(FALSE, NoneInfo)
  /\ clientOpen = 0

\* C8: when a required cookie is absent or null among the browser's
\* cookies, acquisition returns null, the account fails and no HTTP request
\* is issued; a returned set has exactly the required names, with values.
C8_WafAcquisitionAtomic ==
  InAccount =>
    /\ jarState = "partial" =>
          /\ waf_ret = WafNone
          /\ pc = "record"
          /\ ret = Return(FALSE, NoneInfo)
          /\ ~ResultData(i, ret).success
          /\ requests = <<>>
    /\ (waf_ret.called /\ ~waf_ret.none) =>
          /\ DOMAIN waf_ret.cookies = provider_config.waf_cookie_names
          /\ \A n \in DOMAIN waf_ret.cookies : waf_ret.cookies[n] # NullValue
    /\ (Len(requests) > 0 /\ provider_config.waf) =>
          /\ jarState = "complete"
          /\ provider_config.waf_cookie_names \subseteq DOMAIN all_cookies

\* C8 witness: two required names, the browser delivered a partial set
C8_Witness ==
  /\ pc = "record"
  /\ jarState = "partial"
  /\ Cardinality(provider_config.waf_cookie_names) = 2
  /\ requests = <<>>

\* C9: the results list holds one well-formed record per account handled,
\* in configuration order, also for attempts that raised; after the loop
\* there is one record per configured account.
C9_OneRecordPerAccount ==
  /\ Len(results) = i
  /\ \A k \in 1..Len(results) :
        /\ results[k].name = k
        /\ DOMAIN results[k] = {"name", "success", "msg", "quota", "used"}
        /\ results[k].success \in BOOLEAN
        /\ results[k].quota \in Nat
        /\ results[k].used \in Nat
  /\ AfterLoop => Len(results) = Len(accounts)

\* C9 witness: the first attempt raised, the second account was still
\* processed and succeeded
C9_Witness ==
  /\ pc = "done"
  /\ Len(results) = 2
  /\ results[1].msg = "exception"
  /\ ~results[1].success
  /\ results[2].success

\* C10 as stated: the hash file is read once before the accounts and written
\* at most once after them; it holds the fingerprint of the snapshot whenever
\* the snapshot is non-empty and is unchanged when the snapshot is empty.
C10_FileHoldsFingerprint ==
  /\ (pc = "main") => hashReads = 0
  /\ (pc # "main" /\ Len(accounts) > 0) => hashReads = 1
  /\ hashWrites <= 1
  /\ ~AfterLoop => (hashWrites = 0 /\ hashFile = hashFile0)
  /\ AfterLoop =>
       IF DOMAIN current_balances # {}
       THEN hashFile = generate_balance_hash(current_balances)
       ELSE hashWrites = 0 /\ hashFile = hashFile0

\* C10 amended: the hash file is read once before the accounts; after them
\* save_balance_hash is called once with the fingerprint of the snapshot when
\* the snapshot is non-empty (changed or not) and not at all when it is
\* empty; the file holds the fingerprint when the write succeeded, its old
\* content when opening failed, nothing when writing failed.
C10_SaveAttemptedOnce ==
  /\ (pc = "main") => hashReads = 0
  /\ (pc # "main" /\ Len(accounts) > 0) => hashReads = 1
  /\ hashWrites <= 1
  /\ ~AfterLoop => (hashWrites = 0 /\ hashFile = hashFile0)
  /\ AfterLoop =>
       IF DOMAIN current_balances # {}
       THEN /\ hashWrites = 1
            /\ saveOutcome = "written" => hashFile = generate_balance_hash(current_balances)
            /\ saveOutcome = "open_raises" => hashFile = hashFile0
            /\ saveOutcome = "write_raises" => hashFile = EmptyFile
       ELSE hashWrites = 0 /\ hashFile = hashFile0

\* C10 witness: the fingerprint equals the previous one and was written again
C10_Witness ==
  /\ pc = "notify"
  /\ ~balance_changed
  /\ hashWrites = 1
  /\ saveOutcome = "written"
  /\ hashFile = generate_balance_hash(current_balances)
  /\ last_balance_hash = hashFile
  /\ Strip(hashFile0) = hashFile

\* C11: when a second run over the same accounts follows a run in which
\* every account succeeded with user info and the hash was written, and in
\* the second run every account succeeds again with the same quotas, then
\* the second run calls push_message not at all and exits with code 0,
\* whatever the used values are.
SameQuotasAgain ==
  /\ run = 2
  /\ pc = "done"
  /\ success_count = Len(accounts)
  /\ DOMAIN current_balances = DOMAIN prev
  /\ \A k \in DOMAIN prev : current_balances[k].quota = prev[k]

C11_SecondRunSilent ==
  SameQuotasAgain => (notifyCalls = 0 /\ exitCode = 0)

\* C11 as amended: the same, provided the second run could read the hash
\* file (load_balance_hash did not return None).
C11_SecondRunSilentWhenHashRead ==
  (SameQuotasAgain /\ ~IsNone(last_balance_hash)) => (notifyCalls = 0 /\ exitCode = 0)

\* a silent second run over two accounts whose used values are not alike
C11_Witness ==
  /\ SameQuotasAgain
  /\ ~IsNone(last_balance_hash)
  /\ Len(accounts) = 2
  /\ current_balances[1].used # current_balances[2].used
  /\ notifyCalls = 0
  /\ exitCode = 0

\* C12: when an account is recorded, the snapshot gains the key of that
\* account exactly when its check-in succeeded and its user-info fetch
\* succeeded, with the quota and used figures of that user info; no other key
\* is touched, and nothing else changes the snapshot.
C12_SnapshotKeys ==
  [][IF pc = "record"
     THEN LET k == i + 1
              contributes == /\ ret.kind = "return"
                             /\ ret.success
                             /\ ~user_info.none
                             /\ user_info.success
          IN /\ k \notin DOMAIN current_balances
             /\ DOMAIN current_balances' =
                  (IF contributes THEN DOMAIN current_balances \cup {k}
                   ELSE DOMAIN current_balances)
             /\ contributes =>
                  current_balances'[k] =
                    [quota |-> user_info.quota, used |-> user_info.used_quota]
             /\ \A j \in DOMAIN current_balances :
                  current_balances'[j] = current_balances[j]
     ELSE current_balances' = current_balances]_vars

\* C12 witness: account 1 succeeded at check-in without user info, account 2
\* succeeded with it; only account_2 is in the snapshot
C12_Witness ==
  /\ pc = "decide"
  /\ Len(results) = 2
  /\ results[1].success
  /\ results[1].msg = "Check-in OK but failed to get info"
  /\ results[2].success
  /\ DOMAIN current_balances = {2}
  /\ current_balances[2] = [quota |-> 200, used |-> 100]

\* a credential blob that normalises to an empty mapping
EmptyBlob(c) ==
  \/ c.form = "other"
  \/ c.form = "dict" /\ DOMAIN c.dict = {}
  \/ c.form = "str" /\ \A j \in 1..Len(c.segs) : ~c.segs[j].eq
ConfigError(a) == a.provider \notin ProviderKeys \/ EmptyBlob(a.cookies)

\* C13: the fingerprint of a snapshot is determined by, and determines, its
\* key -> quota mapping: two snapshots hash alike exactly when they have the
\* same keys with the same quotas, whatever the order their keys were
\* inserted in and whatever their used values are.
QuotaMap(items) ==
  [k \in {items[j].key : j \in 1..Len(items)} |-> DictOf(items)[k].quota]

C13_FingerprintByQuotas ==
  (probe.kind = "hash" /\ Len(probe.output) > 0) =>
     LET a == probe.input[1]
         b == probe.input[2]
     IN /\ (probe.output[1] = probe.output[2]) <=> (QuotaMap(a) = QuotaMap(b))
        /\ probe.output[1] = generate_balance_hash(DictOf(a))
        /\ probe.output[2] = generate_balance_hash(DictOf(b))

\* two snapshots with the same two key/quota pairs, inserted in opposite
\* orders and with different used values, have the same fingerprint
C13_Witness ==
  /\ probe.kind = "hash"
  /\ Len(probe.output) > 0
  /\ Len(probe.input[1]) = 2
  /\ Len(probe.input[2]) = 2
  /\ probe.input[1][1].key = probe.input[2][2].key
  /\ probe.input[1][2].key = probe.input[2][1].key
  /\ probe.input[1][1].quota = probe.input[2][2].quota
  /\ probe.input[1][2].quota = probe.input[2][1].quota
  /\ probe.input[1][1].used # probe.input[2][2].used
  /\ probe.output[1] = probe.output[2]

\* C14: an account with an unknown provider or an empty credential mapping
\* ends with (false, null) without a browser launch, an HTTP client or a
\* request; its record is a failure and the accounts after it get records.
C14_ConfigErrorIsLocal ==
  /\ (InAccount /\ ConfigError(account)) =>
        /\ pc \in {"check_in_account", "record"}
        /\ clientOpen = 0
        /\ requests = <<>>
        /\ ~waf_ret.called
        /\ pc = "record" => ret = Return(FALSE, NoneInfo)
  /\ \A k \in 1..Len(results) :
        ConfigError(accounts[k]) =>
          (~results[k].success /\ results[k].msg = "Request failed")
  /\ AfterLoop => Len(results) = Len(accounts)

\* C14 witness: account 1 has an empty credential mapping, account 2 was
\* processed and succeeded
C14_Witness ==
  /\ pc = "done"
  /\ Len(accounts) = 2
  /\ accounts[1].provider \in ProviderKeys
  /\ EmptyBlob(accounts[1].cookies)
  /\ ~results[1].success
  /\ results[2].success

\* C15: the cookies attached to the HTTP client are the WAF cookies and the
\* user cookies together; a name in both has the user's value.
C15_UserCookiesWin ==
  pc \in {"get_user_info", "execute_check_in"} =>
    /\ DOMAIN all_cookies = DOMAIN waf_ret.cookies \cup DOMAIN user_cookies
    /\ \A n \in DOMAIN user_cookies : all_cookies[n] = user_cookies[n]
    /\ \A n \in DOMAIN waf_ret.cookies \ DOMAIN user_cookies :
          all_cookies[n] = waf_ret.cookies[n]

\* C15 witness: acw_tc is a WAF cookie and a user cookie with different values
C15_Witness ==
  /\ pc = "get_user_info"
  /\ "acw_tc" \in DOMAIN waf_ret.cookies \cap DOMAIN user_cookies
  /\ waf_ret.cookies["acw_tc"] # user_cookies["acw_tc"]
  /\ all_cookies["acw_tc"] = user_cookies["acw_tc"]

\* C16: with manual check-in, what check_in_account returns after the POST
\* is a success exactly when the POST delivered a response with status 200
\* whose body is a JSON object with ret = 1, code = 0 or a truthy success,
\* or is not JSON and contains "success" in any case; all else is a failure.
C16_CheckInClassification ==
  (probe.kind = "post" /\ Len(probe.output) > 0) =>
     LET resp == probe.input[1]
         r == probe.output[1]
     IN (r.kind = "return" /\ r.success) <=>
           (/\ ~resp.raises
            /\ resp.status = 200
            /\ \/ /\ resp.kind = "json"
                  /\ (resp.ret = "1" \/ resp.code = "0" \/ resp.success = "true")
               \/ /\ resp.kind = "text"
                  /\ resp.has_success)

\* a 200 response that is not JSON and says "success" is a success
C16_Witness ==
  /\ probe.kind = "post"
  /\ Len(probe.output) > 0
  /\ probe.input[1] = PostText(200, TRUE)
  /\ probe.output[1].success

\* C17: with no accounts the run exits with code 1 at once: the hash file is
\* neither read nor written, no browser or client is opened, no notification
\* is sent.
C17_NoAccountsExitsFirst ==
  Len(accounts) = 0 =>
    /\ pc \in {"main", "done"}
    /\ hashReads = 0
    /\ hashWrites = 0
    /\ hashFile = hashFile0
    /\ last_balance_hash = NoText
    /\ contextOpen = 0
    /\ clientOpen = 0
    /\ notifyCalls = 0
    /\ pc = "done" => exitCode = 1

\* C17 witness: the run over no accounts has ended
C17_Witness ==
  /\ Len(accounts) = 0
  /\ pc = "done"
  /\ exitCode = 1

\* C18: when a keyboard interrupt arrives while the account loop runs, the
\* process ends there with exit code 1, the accounts not yet finished are
\* never processed, push_message was not called and save_balance_hash was
\* not called (the hash file is as it was), however many accounts had
\* succeeded before.
C18_InterruptAborts ==
  pc = "interrupted" =>
     /\ exitCode = 1
     /\ i < Len(accounts)
     /\ notifyCalls = 0
     /\ hashWrites = 0
     /\ hashFile = hashFile0
     /\ ~ENABLED Next

\* an interrupt during the second account, after the first one succeeded
C18_Witness ==
  /\ pc = "interrupted"
  /\ i = 1
  /\ success_count = 1
  /\ Len(accounts) = 2

\* C19: per account the requests are GET then POST, each at most once, the
\* GET only with prepared cookies, the POST only with manual check-in; and an
\* account starts only when no browser context and no HTTP client of an
\* earlier account is open.
C19_StepOrder ==
  /\ requests \in {<<>>, <<"GET">>, <<"GET", "POST">>}
  /\ (InAccount /\ Len(requests) > 0) =>
        /\ DOMAIN all_cookies # {}
        /\ provider_config.waf => (waf_ret.called /\ ~waf_ret.none)
        /\ Len(requests) = 2 => provider_config.manual
  /\ pc = "check_in_account" => (contextOpen = 0 /\ clientOpen = 0)

\* C20: with requiresWafCookies, an acquisition that returned a set (no
\* required name missing, also when no name is required) lets the account
\* proceed to the HTTP stage.
C20_NonNullSetProceeds ==
  (InAccount /\ waf_ret.called /\ ~waf_ret.none) =>
     pc \in {"client", "get_user_info", "execute_check_in"}
       \/ (pc = "record" /\ (ret.kind = "raise" \/ Len(requests) > 0))

====
